---- MODULE Spec2Model ----
(***************************************************************************)
(* Mesh factory and transform pipeline of openaerostruct/geometry/utils.py *)
(*                                                                         *)
(* A mesh is a tuple of nx chordwise rows, each a tuple of ny spanwise     *)
(* stations, each a tuple <<x, y, z>> of numbers: mesh[i][j][k] is         *)
(* mesh[i-1, j-1, k-1] of the numpy array.                                 *)
(*                                                                         *)
(* Numbers are exact rationals <<n, d>> in lowest terms with d > 0,        *)
(* extended with the non-finite values numpy produces instead of raising:  *)
(* <<1,0>> = +inf, <<-1,0>> = -inf, <<0,0>> = nan.  Rounding, overflow and *)
(* signed zeros of IEEE doubles are not modelled.                          *)
(***************************************************************************)
EXTENDS Integers, Sequences, FiniteSets, TLC

VARIABLES mesh, mesh0, pre, calls, err, left

vars == <<mesh, mesh0, pre, calls, err, left>>

----------------------------------------------------------------------------
(* Bounds of the model *)

MaxNy == 3
MaxNx == 3
MaxY == 2
MaxOps == 1
MaxPipeline == 2
MaxFactory == 2
MaxNumX == 5
MaxNumY == 5

----------------------------------------------------------------------------
(* Extended rational arithmetic *)

AbsI(n) == IF n < 0 THEN -n ELSE n

SignI(n) == IF n < 0 THEN -1 ELSE IF n > 0 THEN 1 ELSE 0

RECURSIVE GCD(_, _)
GCD(a, b) == IF b = 0 THEN a ELSE GCD(b, a % b)

Norm(n, d) ==
    IF d = 0 THEN <<SignI(n), 0>>
    ELSE LET s == IF d < 0 THEN -1 ELSE 1
             g == GCD(AbsI(n), AbsI(d))
         IN  <<(s * n) \div g, (s * d) \div g>>

Q(n, d) == Norm(n, d)
I(n) == <<n, 1>>
NaN == <<0, 0>>
PInf == <<1, 0>>
NInf == <<-1, 0>>

IsNaN(a) == a[1] = 0 /\ a[2] = 0
IsFinite(a) == a[2] # 0

Neg(a) == <<-a[1], a[2]>>

Add(a, b) ==
    IF IsNaN(a) \/ IsNaN(b) THEN NaN
    ELSE IF a[2] = 0 /\ b[2] = 0 THEN (IF a[1] = b[1] THEN a ELSE NaN)
    ELSE IF a[2] = 0 THEN a
    ELSE IF b[2] = 0 THEN b
    ELSE Norm(a[1] * b[2] + b[1] * a[2], a[2] * b[2])

Sub(a, b) == Add(a, Neg(b))

Mul(a, b) == Norm(a[1] * b[1], a[2] * b[2])

Div(a, b) ==
    LET n == a[1] * b[2]
        d == a[2] * b[1]
    IN  IF d = 0 /\ b[1] < 0 THEN Norm(-n, 0) ELSE Norm(n, d)

Lt(a, b) ==
    IF a[2] = 0 /\ b[2] = 0 THEN a[1] < b[1] /\ a[1] # 0 /\ b[1] # 0
    ELSE a[1] * b[2] < b[1] * a[2]

Le(a, b) == Lt(a, b) \/ (a = b /\ ~IsNaN(a))

AbsQ(a) == <<AbsI(a[1]), a[2]>>

----------------------------------------------------------------------------
(* Array helpers *)

Nx(m) == Len(m)
Ny(m) == Len(m[1])

LeRow(m) == m[1]
TeRow(m) == m[Len(m)]

Rev(s) == [k \in 1..Len(s) |-> s[Len(s) + 1 - k]]

FiniteMesh(m) ==
    \A i \in 1..Nx(m) : \A j \in 1..Ny(m) : \A k \in 1..3 : IsFinite(m[i][j][k])

\* quarter_chord = 0.25 * te + 0.75 * le
QuarterChord(m) ==
    [j \in 1..Ny(m) |->
        [k \in 1..3 |-> Add(Mul(Q(1, 4), TeRow(m)[j][k]), Mul(Q(3, 4), LeRow(m)[j][k]))]]

----------------------------------------------------------------------------
(* numpy primitives the operators call *)

\* np.linspace(start, stop, num) for an integer num >= 0
Linspace(start, stop, num) ==
    IF num = 1 THEN <<start>>
    ELSE [k \in 1..num |->
            Add(start, Mul(Q(k - 1, num - 1), Sub(stop, start)))]

\* the index np.interp's search returns for the key xv, 0 meaning "left of
\* xp[1]" and Len(xp) + 1 meaning "right of xp[Len(xp)]" (linear search, as
\* numpy does for short tables)
InterpIndex(xv, xp) ==
    LET n == Len(xp)
    IN  IF Lt(xp[n], xv) THEN n + 1
        ELSE IF Lt(xv, xp[1]) THEN 0
        ELSE LET stops == {i \in 1..n : i = n \/ Lt(xv, xp[i + 1])}
             IN  CHOOSE i \in stops : \A k \in stops : i <= k

InterpAtLeftZero(xv, xp, fp) ==
    LET n == Len(xp)
        j == InterpIndex(xv, xp)
    IN  IF j = 0 THEN I(0)
        ELSE IF j >= n THEN fp[n]
        ELSE Add(Mul(Div(Sub(fp[j + 1], fp[j]), Sub(xp[j + 1], xp[j])), Sub(xv, xp[j])), fp[j])

\* np.interp(x, xp, fp) at one abscissa: clamps to fp[1] / fp[Len(fp)]
\* outside the table, never checks that xp is increasing
InterpAt(xv, xp, fp) ==
    LET n == Len(xp)
        j == InterpIndex(xv, xp)
    IN  IF IsNaN(xv) THEN xv
        ELSE IF j = 0 THEN fp[1]
        ELSE IF j = n + 1 THEN fp[n]
        ELSE IF j = n THEN fp[n]
        ELSE IF xp[j] = xv THEN fp[j]
        ELSE LET slope == Div(Sub(fp[j + 1], fp[j]), Sub(xp[j + 1], xp[j]))
                 r1 == Add(Mul(slope, Sub(xv, xp[j])), fp[j])
                 r2 == Add(Mul(slope, Sub(xv, xp[j + 1])), fp[j + 1])
             IN  IF ~IsNaN(r1) THEN r1
                 ELSE IF ~IsNaN(r2) THEN r2
                 ELSE IF fp[j] = fp[j + 1] THEN fp[j]
                 ELSE r2

Interp(x, xp, fp) == [j \in 1..Len(x) |-> InterpAt(x[j], xp, fp)]

IsSquare(n) == \E r \in 0..n : r * r = n
ISqrt(n) == CHOOSE r \in 0..n : r * r = n

\* the angles whose cosine and sine the model can state exactly
AtanExact(t) == t[2] = 0 \/ IsSquare(t[1] * t[1] + t[2] * t[2])

CosSinAtanInfIsNaN(t) ==
    IF t[2] = 0 THEN <<NaN, NaN>>
    ELSE LET h == ISqrt(t[1] * t[1] + t[2] * t[2])
         IN  <<Q(t[2], h), Q(t[1], h)>>

\* <<cos(arctan(t)), sin(arctan(t))>>; arctan(+-inf) = +-pi/2, arctan(nan) = nan
CosSinAtan(t) ==
    IF IsNaN(t) THEN <<NaN, NaN>>
    ELSE IF t[2] = 0 THEN <<I(0), I(t[1])>>
    ELSE LET h == ISqrt(t[1] * t[1] + t[2] * t[2])
         IN  <<Q(t[2], h), Q(t[1], h)>>

\* <<cos, sin>> of deg * pi / 180 for deg a multiple of 90
CosSinDeg(deg) ==
    LET q == (deg \div 90) % 4
    IN  IF q = 0 THEN <<I(1), I(0)>>
        ELSE IF q = 1 THEN <<I(0), I(1)>>
        ELSE IF q = 2 THEN <<I(-1), I(0)>>
        ELSE <<I(0), I(-1)>>

\* tan(deg * pi / 180) for deg an odd or even multiple of 45 short of 90
TanDeg(deg) ==
    LET q == (deg \div 45) % 4
    IN  IF q = 0 THEN I(0)
        ELSE IF q = 1 THEN I(1)
        ELSE IF q = 3 THEN I(-1)
        ELSE PInf

----------------------------------------------------------------------------
(* Transform pipeline: each operator as the mesh it leaves behind *)

ScaleAboutOrigin(v, pivot, f) == Mul(v, f)

\* one coordinate rescaled about a pivot: (v - pivot) * f + pivot
ScaleAbout(v, pivot, f) == Add(Mul(Sub(v, pivot), f), pivot)

\* mesh with coordinate k (1 = x, 2 = y, 3 = z) of station j shifted by d[j] on every row
AddPerStation(m, k, d) ==
    [i \in 1..Nx(m) |-> [j \in 1..Ny(m) |->
        [c \in 1..3 |-> IF c = k THEN Add(m[i][j][c], d[j]) ELSE m[i][j][c]]]]

\* a per-station parameter array as numpy broadcasts it against ny stations
Broadcast(a, ny) == [j \in 1..ny |-> IF Len(a) = 1 THEN a[1] ELSE a[j]]
Broadcastable(a, ny) == Len(a) = 1 \/ Len(a) = ny

\* index of the station rotate treats as the root (never rolled)
RotateRoot(ny, symmetry) == IF symmetry THEN ny ELSE ((ny - 1) \div 2) + 1

\* dz_qc / dy_qc of station j: towards the next station left of the root,
\* from the previous one right of it
QcSlope(m, symmetry, j) ==
    LET qc == QuarterChord(m)
        n == IF j < RotateRoot(Ny(m), symmetry) THEN j + 1 ELSE j - 1
    IN  Div(Sub(qc[j][3], qc[n][3]), Sub(qc[j][2], qc[n][2]))

\* the local roll angles of rotate, each as <<cos, sin>>, root station 0
ThetaX(m, symmetry, rotate_x) ==
    [j \in 1..Ny(m) |->
        IF ~rotate_x \/ j = RotateRoot(Ny(m), symmetry) THEN <<I(1), I(0)>>
        ELSE CosSinAtan(QcSlope(m, symmetry, j))]

\* the meshes whose roll angles the model can state exactly
ThetaXExact(m, symmetry) ==
    \A j \in 1..Ny(m) :
        j # RotateRoot(Ny(m), symmetry) => AtanExact(QcSlope(m, symmetry, j))

\* mats[j] of rotate from the two angles of station j
RotMat(cx, sx, cy, sy) ==
    << <<cy, I(0), sy>>,
       <<Mul(sx, sy), cx, Neg(Mul(sx, cy))>>,
       <<Neg(Mul(cx, sy)), sx, Mul(cx, cy)>> >>

MatVec(M, v) ==
    [k \in 1..3 |-> Add(Add(Mul(M[k][1], v[1]), Mul(M[k][2], v[2])), Mul(M[k][3], v[3]))]

RotateRowNoAddBack(v, pivot, M) ==
    MatVec(M, [k \in 1..3 |-> Sub(v[k], pivot[k])])

\* one point of a row: einsum("ikj, ij -> ik", mats, row - quarter_chord),
\* then row += quarter_chord
RotateRow(v, pivot, M) ==
    LET r == MatVec(M, [k \in 1..3 |-> Sub(v[k], pivot[k])])
    IN  [k \in 1..3 |-> Add(r[k], pivot[k])]

rotate(m, theta_y, symmetry, rotate_x) ==
    LET qc == QuarterChord(m)
        tx == ThetaX(m, symmetry, rotate_x)
        ty == Broadcast(theta_y, Ny(m))
        mats == [j \in 1..Ny(m) |->
                    RotMat(tx[j][1], tx[j][2], CosSinDeg(ty[j])[1], CosSinDeg(ty[j])[2])]
    IN  [i \in 1..Nx(m) |-> [j \in 1..Ny(m) |-> RotateRow(m[i][j], qc[j], mats[j])]]

\* scale_x stops with IndexError at the first station chord_dist does not
\* reach; the stations before it are already rescaled
scale_x(m, chord_dist) ==
    LET qc == QuarterChord(m)
    IN  [i \in 1..Nx(m) |-> [j \in 1..Ny(m) |->
            [k \in 1..3 |->
                IF k = 1 /\ j <= Len(chord_dist)
                THEN ScaleAbout(m[i][j][1], qc[j][1], chord_dist[j])
                ELSE m[i][j][k]]]]

shear_x(m, xshear) == AddPerStation(m, 1, Broadcast(xshear, Ny(m)))

shear_z_on_y(m, zshear) == AddPerStation(m, 2, Broadcast(zshear, Ny(m)))

shear_z(m, zshear) == AddPerStation(m, 3, Broadcast(zshear, Ny(m)))

RootOffsetsFromFirst(m, angle, symmetry) ==
    [j \in 1..Ny(m) |-> Mul(Neg(Sub(LeRow(m)[j][2], LeRow(m)[1][2])), TanDeg(angle))]

RootOffsetsRightNegated(m, angle, symmetry) ==
    LET ny2 == IF symmetry THEN Ny(m) ELSE ((Ny(m) - 1) \div 2) + 1
    IN  [j \in 1..Ny(m) |-> Mul(Neg(Sub(LeRow(m)[j][2], LeRow(m)[ny2][2])), TanDeg(angle))]

\* dx of sweep: the offset of every station
RootOffsets(m, angle, symmetry) ==
    LET le == LeRow(m)
        ny == Ny(m)
        tan_theta == TanDeg(angle)
        ny2 == IF symmetry THEN ny ELSE ((ny - 1) \div 2) + 1
        y0 == le[ny2][2]
    IN  [j \in 1..ny |->
            IF symmetry \/ j < ny2
            THEN Mul(Neg(Sub(le[j][2], y0)), tan_theta)
            ELSE Mul(Sub(le[j][2], y0), tan_theta)]

sweep_along_quarter_chord(m, sweep_angle, symmetry) ==
    LET qc == QuarterChord(m)
        ny2 == IF symmetry THEN Ny(m) ELSE ((Ny(m) - 1) \div 2) + 1
        dx == [j \in 1..Ny(m) |->
                IF symmetry \/ j < ny2
                THEN Mul(Neg(Sub(qc[j][2], qc[ny2][2])), TanDeg(sweep_angle))
                ELSE Mul(Sub(qc[j][2], qc[ny2][2]), TanDeg(sweep_angle))]
    IN  AddPerStation(m, 1, dx)

sweep_leading_row_only(m, sweep_angle, symmetry) ==
    LET dx == RootOffsets(m, sweep_angle, symmetry)
    IN  [i \in 1..Nx(m) |-> [j \in 1..Ny(m) |->
            [c \in 1..3 |-> IF c = 1 /\ i = 1 THEN Add(m[i][j][c], dx[j]) ELSE m[i][j][c]]]]

sweep(m, sweep_angle, symmetry) == AddPerStation(m, 1, RootOffsets(m, sweep_angle, symmetry))

DihedralOffsetsLeftNotNegated(m, angle, symmetry) ==
    LET le == LeRow(m)
        ny2 == IF symmetry THEN Ny(m) ELSE ((Ny(m) - 1) \div 2) + 1
    IN  [j \in 1..Ny(m) |->
            IF symmetry THEN Mul(Neg(Sub(le[j][2], le[ny2][2])), TanDeg(angle))
            ELSE Mul(Sub(le[j][2], le[ny2][2]), TanDeg(angle))]

\* dz of dihedral: dz = -(le_y - y0) * tan_theta under symmetry, else
\* np.hstack((dz_left, dz_right)) about the station (num_y - 1) // 2
DihedralOffsets(m, angle, symmetry) ==
    LET le == LeRow(m)
        num_y == Ny(m)
        tan_theta == TanDeg(angle)
    IN  IF symmetry
        THEN [j \in 1..num_y |-> Mul(Neg(Sub(le[j][2], le[num_y][2])), tan_theta)]
        ELSE LET ny2 == (num_y - 1) \div 2
                 y0 == le[ny2 + 1][2]
                 dz_right == [k \in 1..(num_y - ny2) |-> Mul(Sub(le[ny2 + k][2], y0), tan_theta)]
                 dz_left == [k \in 1..ny2 |-> Mul(Neg(Sub(le[k][2], y0)), tan_theta)]
             IN  dz_left \o dz_right

dihedral(m, dihedral_angle, symmetry) ==
    AddPerStation(m, 3, DihedralOffsets(m, dihedral_angle, symmetry))

StretchSpanNotHalved(span, symmetry) == span

\* if symmetry: span /= 2.
StretchSpan(span, symmetry) == IF symmetry THEN Div(span, I(2)) ELSE span

stretch(m, span, symmetry) ==
    LET qc == QuarterChord(m)
        sp == StretchSpan(span, symmetry)
        prev_span == Sub(qc[Ny(m)][2], qc[1][2])
    IN  [i \in 1..Nx(m) |-> [j \in 1..Ny(m) |->
            [k \in 1..3 |->
                IF k = 2 THEN Mul(Div(qc[j][2], prev_span), sp) ELSE m[i][j][k]]]]

\* the per-station scale envelope of taper
TaperEnvelope(m, taper_ratio, symmetry) ==
    LET qc == QuarterChord(m)
        x == [j \in 1..Ny(m) |-> qc[j][2]]
        span == Sub(x[Ny(m)], x[1])
        xp == IF symmetry THEN <<Neg(span), I(0)>>
              ELSE <<Div(Neg(span), I(2)), I(0), Div(span, I(2))>>
        fp == IF symmetry THEN <<taper_ratio, I(1)>>
              ELSE <<taper_ratio, I(1), taper_ratio>>
    IN  Interp(x, xp, fp)

taper_about_leading_edge(m, taper_ratio, symmetry) ==
    LET env == TaperEnvelope(m, taper_ratio, symmetry)
    IN  [i \in 1..Nx(m) |-> [j \in 1..Ny(m) |->
            [k \in 1..3 |-> ScaleAbout(m[i][j][k], LeRow(m)[j][k], env[j])]]]

taper(m, taper_ratio, symmetry) ==
    LET qc == QuarterChord(m)
        env == TaperEnvelope(m, taper_ratio, symmetry)
    IN  [i \in 1..Nx(m) |-> [j \in 1..Ny(m) |->
            [k \in 1..3 |-> ScaleAbout(m[i][j][k], qc[j][k], env[j])]]]

----------------------------------------------------------------------------
(* Mesh factory *)

\* np.cos(beta[k]) for beta = np.linspace(0, pi/2, n), to two decimals
CosBeta(k, n) ==
    LET t == IF n = 1 THEN I(0) ELSE Q(k - 1, n - 1)
    IN  IF t = I(0) THEN I(1)
        ELSE IF t = Q(1, 4) THEN Q(92, 100)
        ELSE IF t = Q(1, 3) THEN Q(87, 100)
        ELSE IF t = Q(1, 2) THEN Q(71, 100)
        ELSE IF t = Q(2, 3) THEN Q(50, 100)
        ELSE IF t = Q(3, 4) THEN Q(38, 100)
        ELSE IF t = I(1) THEN I(0)
        ELSE NaN

HalfWingUniformAscending(n, top, blend) ==
    LET uniform == Linspace(I(0), top, n)
    IN  [k \in 1..n |->
            Add(Mul(Mul(top, CosBeta(k, n)), blend),
                Mul(Sub(I(1), blend), uniform[k]))]

\* half_wing: cosine * blend + (1 - blend) * uniform over n points, the
\* cosine and uniform distributions both running from top down to 0
HalfWing(n, top, blend) ==
    LET uniform == Rev(Linspace(I(0), top, n))
    IN  [k \in 1..n |->
            Add(Mul(Mul(top, CosBeta(k, n)), blend),
                Mul(Sub(I(1), blend), uniform[k]))]

MirrorNotReversed(half_wing) ==
    LET n == Len(half_wing)
    IN  [k \in 1..(2 * n - 1) |->
            IF k < n THEN Neg(half_wing[k]) ELSE half_wing[k - n + 1]]

\* np.hstack((-half_wing[:-1], half_wing[::-1]))
Mirror(half_wing) ==
    LET n == Len(half_wing)
    IN  [k \in 1..(2 * n - 1) |->
            IF k < n THEN Neg(half_wing[k]) ELSE half_wing[2 * n - k]]

Scaled(a, f) == [k \in 1..Len(a) |-> Mul(a[k], f)]
Shifted(a, d) == [k \in 1..Len(a) |-> Add(a[k], d)]

\* full_wing of gen_rect_mesh: the spanwise coordinates
RectFullWing(num_y, span, span_cos_spacing) ==
    Scaled(Mirror(HalfWing((num_y + 1) \div 2, Q(1, 2), span_cos_spacing)), span)

\* full_wing_x of gen_rect_mesh: the chordwise coordinates.  With a nonzero
\* blend nx2 = (num_x + 1) / 2 is a float; a numpy that still accepts a
\* float count (legacy) truncates it
RectFullWingX(num_x, chord, chord_cos_spacing) ==
    IF chord_cos_spacing = I(0) THEN Linspace(I(0), chord, num_x)
    ELSE Scaled(Mirror(HalfWing((num_x + 1) \div 2, Q(1, 2), chord_cos_spacing)), chord)

\* the exception gen_rect_mesh ends with, "none" when it returns
gen_rect_mesh_raises(num_x, num_y, span, chord, span_cos_spacing, chord_cos_spacing, legacy) ==
    IF chord_cos_spacing # I(0) /\ ~legacy THEN "TypeError"
    ELSE IF Len(RectFullWingX(num_x, chord, chord_cos_spacing)) < num_x
            \/ Len(RectFullWing(num_y, span, span_cos_spacing)) < num_y
         THEN "IndexError"
         ELSE "none"

gen_rect_mesh(num_x, num_y, span, chord, span_cos_spacing, chord_cos_spacing) ==
    LET full_wing == RectFullWing(num_y, span, span_cos_spacing)
        full_wing_x == RectFullWingX(num_x, chord, chord_cos_spacing)
    IN  [ind_x \in 1..num_x |-> [ind_y \in 1..num_y |->
            <<full_wing_x[ind_x], full_wing[ind_y], I(0)>>]]

\* get_crm_points(wing_type): the reference airfoil table, one row
\* <<eta, leading x, leading y, leading z, twist, chord>> per station, in inches
get_crm_points ==
    << <<I(0), I(0), I(0), I(0), I(6), Q(20000, 127)>>,
       <<Q(1, 2), Q(5000, 127), Q(10000, 127), I(0), I(2), Q(10000, 127)>>,
       <<I(1), Q(10000, 127), Q(20000, 127), Q(5000, 127), I(-3), Q(5000, 127)>> >>

\* raw_mesh: the table's leading (r = 1) and trailing (r = 2) edge, in meters
CrmRawMesh ==
    LET raw_crm_points == get_crm_points
    IN  [r \in 1..2 |-> [n \in 1..Len(raw_crm_points) |->
            [k \in 1..3 |->
                Mul(IF r = 2 /\ k = 1
                    THEN Add(raw_crm_points[n][2], raw_crm_points[n][6])
                    ELSE raw_crm_points[n][k + 1],
                    Q(254, 10000))]]]

\* the half span of gen_crm_mesh: both edges interpolated at
\* lins[::-1] against eta
CrmHalf(num_y, span_cos_spacing) ==
    LET ny2 == (num_y + 1) \div 2
        lins == HalfWing(ny2, I(1), span_cos_spacing)
        eta == [n \in 1..Len(get_crm_points) |-> get_crm_points[n][1]]
    IN  [j \in 1..2 |-> [s \in 1..ny2 |->
            [i \in 1..3 |->
                InterpAt(Rev(lins)[s], eta,
                         [n \in 1..Len(eta) |-> CrmRawMesh[j][n][i]])]]]

\* np.hstack((left_half[:, ::-1, :], mesh[:, 1:, :])) with left_half the
\* copy whose y is negated
CrmMirror(half) ==
    [j \in 1..2 |->
        [s \in 1..Len(half[j]) |->
            LET v == half[j][Len(half[j]) + 1 - s]
            IN  <<v[1], Neg(v[2]), v[3]>>]
        \o Tail(half[j])]

PanelWeightsNotShifted(num_x, chord_cos_spacing) ==
    IF chord_cos_spacing = I(0) THEN Linspace(I(0), I(1), num_x)
    ELSE Mirror(HalfWing((num_x + 1) \div 2, Q(1, 2), chord_cos_spacing))

\* full_wing_x of add_chordwise_panels: the blend weight of every row
PanelWeights(num_x, chord_cos_spacing) ==
    IF chord_cos_spacing = I(0) THEN Linspace(I(0), I(1), num_x)
    ELSE Shifted(Mirror(HalfWing((num_x + 1) \div 2, Q(1, 2), chord_cos_spacing)), Q(1, 2))

add_chordwise_panels(m, num_x, chord_cos_spacing) ==
    LET le == LeRow(m)
        te == TeRow(m)
        full_wing_x == PanelWeights(num_x, chord_cos_spacing)
    IN  [i \in 1..num_x |-> [j \in 1..Ny(m) |->
            IF i = num_x THEN te[j]
            ELSE IF i = 1 THEN le[j]
            ELSE [k \in 1..3 |->
                    Add(Mul(Sub(I(1), full_wing_x[i]), le[j][k]),
                        Mul(full_wing_x[i], te[j][k]))]]]

\* the mesh gen_crm_mesh returns (its eta and twist are copies of the table's columns)
gen_crm_mesh(num_x, num_y, span_cos_spacing, chord_cos_spacing) ==
    LET mirrored == CrmMirror(CrmHalf(num_y, span_cos_spacing))
    IN  IF num_x > 2 THEN add_chordwise_panels(mirrored, num_x, chord_cos_spacing)
        ELSE mirrored

----------------------------------------------------------------------------
(* Inputs the callers are modelled to supply *)

YVals == (0 - MaxY)..MaxY

\* a caller-supplied mesh of nx rows over the stations ys: leading edge at
\* x = lx * (j - 1), chord 2, trailing edge shifted spanwise by skew,
\* z rising with slope dih along y
MkMesh(nx, ys, skew, dih, lx) ==
    [i \in 1..nx |-> [j \in 1..Len(ys) |->
        LET f == IF nx = 1 THEN I(0) ELSE Q(i - 1, nx - 1)
        IN  << Add(I(lx * (j - 1)), Mul(f, I(2))),
               Add(I(ys[j]), Mul(f, I(skew))),
               Mul(dih, I(ys[j])) >>]]

\* station orders a caller uses: spanwise positions that never turn back
Monotone(ys) ==
    \/ \A j \in 1..(Len(ys) - 1) : ys[j] <= ys[j + 1]
    \/ \A j \in 1..(Len(ys) - 1) : ys[j] >= ys[j + 1]

StationSeqs == {ys \in UNION {[1..n -> YVals] : n \in 1..MaxNy} : Monotone(ys)}

\* <<skew, dih, lx>> of the supplied meshes
Shapes == {<<0, I(0), 0>>, <<1, I(0), 0>>, <<1, Q(3, 4), 1>>}

\* a caller-supplied mesh with vertical segments (a winglet): stations that
\* share a y are stacked in z, the later one lower
MkWinglet(nx, ys) ==
    [i \in 1..nx |-> [j \in 1..Len(ys) |->
        LET f == IF nx = 1 THEN I(0) ELSE Q(i - 1, nx - 1)
        IN  << Mul(f, I(2)),
               I(ys[j]),
               I(Cardinality({k \in (j + 1)..Len(ys) : ys[k] = ys[j]})) >>]]

\* station orders with a vertical segment at the first station
WingletSeqs == {ys \in StationSeqs : Len(ys) >= 2 /\ ys[1] = ys[2]}

InitMeshes ==
    {MkMesh(nx, ys, sh[1], sh[2], sh[3]) :
        nx \in {1, MaxNx}, ys \in StationSeqs, sh \in Shapes}
    \cup {MkWinglet(nx, ys) : nx \in {1, MaxNx}, ys \in WingletSeqs}

\* per-station parameter arrays: every length up to MaxNy, and one too long
Arrays(V) ==
    UNION {[1..n -> V] : n \in 1..MaxNy} \cup {[j \in 1..(MaxNy + 1) |-> v] : v \in V}

Blends == {I(0), Q(1, 2), I(1)}
RectSpans == {I(4), I(10)}
RectChords == {I(1), I(2)}

\* the factory's rectangular meshes small enough for the per-station arrays
RectMeshes ==
    {gen_rect_mesh(num_x, num_y, span, I(2), I(0), I(0)) :
        num_x \in 2..MaxNx, num_y \in {n \in 1..MaxNy : n % 2 = 1}, span \in RectSpans}

Increasing(ys) == \A j \in 1..(Len(ys) - 1) : ys[j] < ys[j + 1]

\* the meshes the chained calls start from: factory meshes, and supplied
\* ones whose trailing edge is skewed spanwise
PipelineMeshes ==
    RectMeshes \cup
    {MkMesh(MaxNx, ys, sh[1], sh[2], sh[3]) :
        ys \in {s \in [1..MaxNy -> YVals] : Increasing(s)},
        sh \in {h \in Shapes : h[1] # 0}}

TwistDegrees == {0, 90}
ChordFactors == {Q(1, 2), I(2)}
Shears == {I(0), I(1)}
SweepDegrees == {-45, 0, 45}
Spans == {I(0), I(2), I(4)}
TaperRatios == {I(0), Q(1, 2), I(1), I(2)}

Init ==
    /\ mesh \in InitMeshes
    /\ mesh0 = mesh
    /\ pre = mesh
    /\ calls = <<>>
    /\ err = "none"
    /\ left = MaxOps

\* bookkeeping shared by the operator calls: the mesh on entry and the call
Called(op, symmetry, flag, scalar, array) ==
    /\ left' = left - 1
    /\ pre' = mesh
    /\ mesh0' = mesh0
    /\ calls' = Append(calls, [op |-> op, symmetry |-> symmetry, flag |-> flag,
                               scalar |-> scalar, array |-> array])

Rotate ==
    /\ left > 0
    /\ \E theta_y \in Arrays(TwistDegrees), symmetry \in BOOLEAN, rotate_x \in BOOLEAN :
        /\ IF rotate_x THEN ThetaXExact(mesh, symmetry) ELSE TRUE
        /\ Called("rotate", symmetry, rotate_x, I(0), theta_y)
        /\ IF Broadcastable(theta_y, Ny(mesh))
           THEN mesh' = rotate(mesh, theta_y, symmetry, rotate_x) /\ err' = "none"
           ELSE mesh' = mesh /\ err' = "ValueError"

ScaleX ==
    /\ left > 0
    /\ \E chord_dist \in Arrays(ChordFactors) :
        /\ Called("scale_x", FALSE, FALSE, I(0), chord_dist)
        /\ mesh' = scale_x(mesh, chord_dist)
        /\ err' = IF Len(chord_dist) < Ny(mesh) THEN "IndexError" ELSE "none"

ShearX ==
    /\ left > 0
    /\ \E xshear \in Arrays(Shears) :
        /\ Called("shear_x", FALSE, FALSE, I(0), xshear)
        /\ IF Broadcastable(xshear, Ny(mesh))
           THEN mesh' = shear_x(mesh, xshear) /\ err' = "none"
           ELSE mesh' = mesh /\ err' = "ValueError"

ShearZ ==
    /\ left > 0
    /\ \E zshear \in Arrays(Shears) :
        /\ Called("shear_z", FALSE, FALSE, I(0), zshear)
        /\ IF Broadcastable(zshear, Ny(mesh))
           THEN mesh' = shear_z(mesh, zshear) /\ err' = "none"
           ELSE mesh' = mesh /\ err' = "ValueError"

Sweep ==
    /\ left > 0
    /\ \E sweep_angle \in SweepDegrees, symmetry \in BOOLEAN :
        /\ Called("sweep", symmetry, FALSE, I(sweep_angle), <<>>)
        /\ mesh' = sweep(mesh, sweep_angle, symmetry)
        /\ err' = "none"

Dihedral ==
    /\ left > 0
    /\ \E dihedral_angle \in SweepDegrees, symmetry \in BOOLEAN :
        /\ Called("dihedral", symmetry, FALSE, I(dihedral_angle), <<>>)
        /\ mesh' = dihedral(mesh, dihedral_angle, symmetry)
        /\ err' = "none"

Stretch ==
    /\ left > 0
    /\ \E span \in Spans, symmetry \in BOOLEAN :
        /\ Called("stretch", symmetry, FALSE, span, <<>>)
        /\ mesh' = stretch(mesh, span, symmetry)
        /\ err' = "none"

Taper ==
    /\ left > 0
    /\ \E taper_ratio \in TaperRatios, symmetry \in BOOLEAN :
        /\ Called("taper", symmetry, FALSE, taper_ratio, <<>>)
        /\ mesh' = taper(mesh, taper_ratio, symmetry)
        /\ err' = "none"

Next ==
    \/ Rotate
    \/ ScaleX
    \/ ShearX
    \/ ShearZ
    \/ Sweep
    \/ Dihedral
    \/ Stretch
    \/ Taper

Spec == Init /\ [][Next]_vars

\* two operators chained on one mesh, in either order
InitPipeline ==
    /\ mesh \in PipelineMeshes
    /\ mesh0 = mesh
    /\ pre = mesh
    /\ calls = <<>>
    /\ err = "none"
    /\ left = MaxPipeline

NextPipeline ==
    \/ ShearX
    \/ ShearZ
    \/ Sweep
    \/ Taper

SpecPipeline == InitPipeline /\ [][NextPipeline]_vars

----------------------------------------------------------------------------
(* The factory on its own: a mesh is generated, or supplied as a leading and
   a trailing row, and then refined chordwise *)


TwoRowMeshes == {MkMesh(2, ys, sh[1], sh[2], sh[3]) : ys \in StationSeqs, sh \in Shapes}

InitFactory ==
    /\ \/ mesh = <<>> /\ left = MaxFactory
       \/ mesh \in TwoRowMeshes /\ left = MaxFactory - 1
    /\ mesh0 = mesh
    /\ pre = mesh
    /\ calls = <<>>
    /\ err = "none"

GenRectMesh ==
    /\ left > 0
    /\ mesh = <<>>
    /\ err = "none"
    /\ \E num_x \in 1..MaxNumX, num_y \in 1..MaxNumY, span \in RectSpans, chord \in RectChords,
          span_cos_spacing \in Blends, chord_cos_spacing \in Blends, legacy \in BOOLEAN :
        LET raised == gen_rect_mesh_raises(num_x, num_y, span, chord,
                                           span_cos_spacing, chord_cos_spacing, legacy)
        IN  /\ Called("gen_rect_mesh", FALSE, legacy, I(0),
                      <<I(num_x), I(num_y), span, chord, span_cos_spacing, chord_cos_spacing>>)
            /\ err' = raised
            /\ mesh' = IF raised = "none"
                       THEN gen_rect_mesh(num_x, num_y, span, chord,
                                          span_cos_spacing, chord_cos_spacing)
                       ELSE mesh

AddChordwisePanels ==
    /\ left > 0
    /\ mesh # <<>>
    /\ \E num_x \in 2..MaxNumX, chord_cos_spacing \in Blends :
        /\ Called("add_chordwise_panels", FALSE, FALSE, chord_cos_spacing, <<I(num_x)>>)
        /\ mesh' = add_chordwise_panels(mesh, num_x, chord_cos_spacing)
        /\ err' = "none"

GenCrmMesh ==
    /\ left > 0
    /\ mesh = <<>>
    /\ err = "none"
    /\ \E num_x \in 1..MaxNumX, num_y \in 1..MaxNumY,
          span_cos_spacing \in Blends, chord_cos_spacing \in Blends :
        /\ Called("gen_crm_mesh", FALSE, FALSE, I(0),
                  <<I(num_x), I(num_y), span_cos_spacing, chord_cos_spacing>>)
        /\ mesh' = gen_crm_mesh(num_x, num_y, span_cos_spacing, chord_cos_spacing)
        /\ err' = "none"

NextFactory ==
    \/ GenRectMesh
    \/ GenCrmMesh
    \/ AddChordwisePanels

SpecFactory == InitFactory /\ [][NextFactory]_vars

----------------------------------------------------------------------------
(* Properties *)

LastCall == calls[Len(calls)]

\* the last call was op and it returned
After(op) == calls # <<>> /\ LastCall.op = op /\ err = "none"

Points(m) == {<<i, j>> : i \in 1..Nx(m), j \in 1..Ny(m)}

\* quarter-chord spanwise extent: last station minus first
QcExtent(m) == Sub(QuarterChord(m)[Ny(m)][2], QuarterChord(m)[1][2])

\* C1: taper(mesh, 1.0, symmetry) leaves every coordinate of every mesh
\* equal to its value before the call, for both symmetry modes.
C1_TaperOneIsIdentity ==
    (After("taper") /\ LastCall.scalar = I(1)) => mesh = pre

\* a half-wing mesh with a station left of the envelope's table, tapered by 1
C1_Witness ==
    /\ After("taper") /\ LastCall.scalar = I(1) /\ LastCall.symmetry
    /\ Nx(pre) > 1 /\ Ny(pre) > 1
    /\ Lt(QuarterChord(pre)[1][2], Neg(QcExtent(pre)))
    /\ mesh = pre

\* C2: rotate with all-zero twist and rotate_x = False leaves every
\* coordinate of the mesh unchanged, for both symmetry modes.
C2_ZeroTwistIsIdentity ==
    (/\ After("rotate") /\ ~LastCall.flag
     /\ \A j \in 1..Len(LastCall.array) : LastCall.array[j] = 0) => mesh = pre

C2_Witness ==
    /\ After("rotate") /\ ~LastCall.flag /\ ~LastCall.symmetry
    /\ LastCall.array = [j \in 1..MaxNy |-> 0]
    /\ Nx(pre) > 1 /\ pre[1][1][3] # pre[1][2][3]
    /\ mesh = pre

\* C4: after stretch(mesh, target_span, symmetry) on a mesh whose
\* quarter-chord line has a nonzero spanwise extent, that extent equals
\* target_span / 2 when symmetry is True and target_span when it is False.
C4_StretchReachesSpan ==
    (After("stretch") /\ QcExtent(pre) # I(0)) =>
        QcExtent(mesh) = IF LastCall.symmetry THEN Div(LastCall.scalar, I(2))
                         ELSE LastCall.scalar

\* a half wing of extent 1 (plus a skewed trailing edge) stretched to span 4
C4_Witness ==
    /\ After("stretch") /\ LastCall.symmetry /\ LastCall.scalar = I(4)
    /\ QcExtent(pre) = I(1) /\ pre[1][1][2] # pre[Nx(pre)][1][2]
    /\ QcExtent(mesh) = I(2)

\* offset the last call added to coordinate k of point <<i, j>>
Added(i, j, k) == Sub(mesh[i][j][k], pre[i][j][k])

\* spanwise distance of station j from the root of a half wing (last station)
RootDistance(m, j) == AbsQ(Sub(LeRow(m)[j][2], LeRow(m)[Ny(m)][2]))

\* C6: for a symmetric mesh, sweep (on x) and dihedral (on z) add an offset
\* of exactly 0 at the station on the root (the last one), and for a nonzero
\* angle the magnitude of the added offset grows strictly with the station's
\* spanwise distance from the root.
C6_SymmetricOffsets ==
    \A k \in {1, 3} :
        (After(IF k = 1 THEN "sweep" ELSE "dihedral") /\ LastCall.symmetry) =>
            \A p \in Points(pre) :
                /\ Added(p[1], Ny(pre), k) = I(0)
                /\ LastCall.scalar # I(0) =>
                    \A q \in Points(pre) :
                        /\ Lt(RootDistance(pre, p[2]), RootDistance(pre, q[2]))
                            => Lt(AbsQ(Added(p[1], p[2], k)), AbsQ(Added(q[1], q[2], k)))
                        /\ RootDistance(pre, p[2]) = RootDistance(pre, q[2])
                            => AbsQ(Added(p[1], p[2], k)) = AbsQ(Added(q[1], q[2], k))

\* a swept half wing of three stations at three distances from the root
C6_Witness ==
    /\ After("sweep") /\ LastCall.symmetry /\ LastCall.scalar = I(45)
    /\ Ny(pre) = 3
    /\ Lt(RootDistance(pre, 2), RootDistance(pre, 1))
    /\ Lt(I(0), RootDistance(pre, 2))
    /\ Lt(Added(1, 2, 1), Added(1, 1, 1))
    /\ Added(1, 3, 1) = I(0)

\* C8: scale_x(mesh, c) replaces the x of every point (i, j) by
\* qc_x[j] + c[j] * (x - qc_x[j]) with qc the quarter-chord on entry; the
\* quarter-chord point of every station is the same afterwards, the chord
\* trailing_x - leading_x of station j is multiplied by c[j], and every y
\* and z is unchanged.
C8_ScaleXAboutQuarterChord ==
    After("scale_x") =>
        /\ \A p \in Points(pre) :
            /\ mesh[p[1]][p[2]][1] =
                  Add(QuarterChord(pre)[p[2]][1],
                      Mul(LastCall.array[p[2]],
                          Sub(pre[p[1]][p[2]][1], QuarterChord(pre)[p[2]][1])))
            /\ mesh[p[1]][p[2]][2] = pre[p[1]][p[2]][2]
            /\ mesh[p[1]][p[2]][3] = pre[p[1]][p[2]][3]
        /\ QuarterChord(mesh) = QuarterChord(pre)
        /\ \A j \in 1..Ny(pre) :
            Sub(TeRow(mesh)[j][1], LeRow(mesh)[j][1]) =
                Mul(LastCall.array[j], Sub(TeRow(pre)[j][1], LeRow(pre)[j][1]))

\* stations of different chord factors on a mesh whose quarter chord is off x = 0
C8_Witness ==
    /\ After("scale_x") /\ LastCall.array = <<Q(1, 2), I(2), I(2)>>
    /\ Nx(pre) = 3 /\ Ny(pre) = 3
    /\ QuarterChord(pre)[2][1] # I(0)
    /\ Sub(TeRow(mesh)[1][1], LeRow(mesh)[1][1]) = I(1)
    /\ Sub(TeRow(mesh)[2][1], LeRow(mesh)[2][1]) = I(4)

\* the local slope of the quarter-chord line is defined at every station
\* rotate rolls: no two adjacent quarter-chord stations coincide in y and z
SlopesDefined(m, symmetry) ==
    \A j \in 1..Ny(m) :
        j # RotateRoot(Ny(m), symmetry) => ~IsNaN(QcSlope(m, symmetry, j))

\* C9: rotate (any twist angles, either value of rotate_x, either symmetry
\* mode) and taper (any taper ratio, either symmetry mode) leave the
\* quarter-chord point 0.25 * trailing + 0.75 * leading of every station
\* unchanged in all three coordinates.  Meshes where two adjacent
\* quarter-chord stations coincide are the degenerate input the local-roll
\* computation is documented not to handle (0/0) and are left out.
C9_QuarterChordIsPivot ==
    /\ (After("rotate") /\ (LastCall.flag => SlopesDefined(pre, LastCall.symmetry)))
            => QuarterChord(mesh) = QuarterChord(pre)
    /\ After("taper") => QuarterChord(mesh) = QuarterChord(pre)

\* a station rolled by atan(3/4) and twisted by 90 degrees really moved
C9_Witness ==
    /\ After("rotate") /\ LastCall.flag /\ LastCall.symmetry
    /\ LastCall.array = <<90, 90, 90>>
    /\ QcSlope(pre, TRUE, 1) = Q(3, 4)
    /\ mesh # pre
    /\ QuarterChord(mesh) = QuarterChord(pre)

\* the arguments of a gen_rect_mesh call, as the call record keeps them
ArgInt(c, k) == c.array[k][1]

\* C3: with both spacing blends 0, for nx >= 2 and odd ny >= 3, point (i, j)
\* of gen_rect_mesh has x = i * chord / (nx - 1), y = -span/2 + j * span / (ny - 1)
\* and z = 0 (i, j counted from 0); gen_rect_mesh(2, 3, 10, 2, 0, 0) has
\* shape (2, 3, 3), y = [-5, 0, 5] in both rows, x = 0 on the leading row
\* and x = 2 on the trailing row.
C3_ZeroBlendIsLinear ==
    (/\ After("gen_rect_mesh")
     /\ LastCall.array[5] = I(0) /\ LastCall.array[6] = I(0)
     /\ ArgInt(LastCall, 1) >= 2
     /\ ArgInt(LastCall, 2) >= 3 /\ ArgInt(LastCall, 2) % 2 = 1) =>
        LET nx == ArgInt(LastCall, 1)
            ny == ArgInt(LastCall, 2)
            span == LastCall.array[3]
            chord == LastCall.array[4]
        IN  /\ Len(mesh) = nx
            /\ \A i \in 1..nx :
                /\ Len(mesh[i]) = ny
                /\ \A j \in 1..ny :
                    mesh[i][j] =
                        << Div(Mul(I(i - 1), chord), I(nx - 1)),
                           Add(Div(Neg(span), I(2)), Div(Mul(I(j - 1), span), I(ny - 1))),
                           I(0) >>
            /\ (nx = 2 /\ ny = 3 /\ span = I(10) /\ chord = I(2)) =>
                  mesh = << <<<<I(0), I(-5), I(0)>>, <<I(0), I(0), I(0)>>, <<I(0), I(5), I(0)>>>>,
                            <<<<I(2), I(-5), I(0)>>, <<I(2), I(0), I(0)>>, <<I(2), I(5), I(0)>>>> >>

\* gen_rect_mesh(2, 3, 10, 2, 0, 0) has returned
C3_Witness ==
    /\ After("gen_rect_mesh")
    /\ LastCall.array = <<I(2), I(3), I(10), I(2), I(0), I(0)>>
    /\ mesh[2][3] = <<I(2), I(5), I(0)>>

\* the blend weight of row i as the refined mesh shows it at station j:
\* how far x has moved from the leading towards the trailing edge
WeightAt(i, j) ==
    Div(Sub(mesh[i][j][1], pre[1][j][1]), Sub(pre[2][j][1], pre[1][j][1]))

\* C5: add_chordwise_panels(mesh, num_x, blend) on a 2-row mesh returns
\* num_x rows; row 0 is the input leading row and row num_x - 1 the input
\* trailing row exactly; every interior row is (1 - w_i) * leading +
\* w_i * trailing with w_i inside [0, 1] and non-decreasing in i, so at every
\* station x is monotonically ordered from leading to trailing edge.
C5_PanelsBlendRows ==
    (After("add_chordwise_panels") /\ Nx(pre) = 2) =>
        LET num_x == ArgInt(LastCall, 1)
            w == [i \in 1..num_x |-> WeightAt(i, 1)]
        IN  /\ Nx(mesh) = num_x /\ Ny(mesh) = Ny(pre)
            /\ mesh[1] = pre[1]
            /\ mesh[num_x] = pre[2]
            /\ \A i \in 2..(num_x - 1) :
                /\ Le(I(0), w[i]) /\ Le(w[i], I(1))
                /\ Le(w[i - 1], w[i]) /\ Le(w[i], w[i + 1])
                /\ \A j \in 1..Ny(pre) : \A k \in 1..3 :
                    mesh[i][j][k] =
                        Add(Mul(Sub(I(1), w[i]), pre[1][j][k]), Mul(w[i], pre[2][j][k]))
            /\ \A i \in 1..(num_x - 1) : \A j \in 1..Ny(pre) :
                IF Le(pre[1][j][1], pre[2][j][1])
                THEN Le(mesh[i][j][1], mesh[i + 1][j][1])
                ELSE Le(mesh[i + 1][j][1], mesh[i][j][1])

\* a skewed 2-row mesh refined to 5 rows with cosine spacing
C5_Witness ==
    /\ After("add_chordwise_panels") /\ Nx(pre) = 2 /\ Ny(pre) = 3
    /\ ArgInt(LastCall, 1) = 5 /\ LastCall.scalar = I(1)
    /\ pre[1][1][2] # pre[2][1][2]
    /\ Lt(WeightAt(2, 1), Q(1, 4)) /\ Lt(Q(3, 4), WeightAt(4, 1))
    /\ Lt(mesh[2][3][1], mesh[3][3][1])

\* the per-station offsets a shear call of full length adds
FullLength(c, m) == Len(c.array) = Ny(m)

Zeros(a) == \A j \in 1..Len(a) : a[j] = I(0)

\* C7: shear_x(mesh, d) adds d[j] to the x of every row at station j and
\* leaves y and z alone; shear_z(mesh, d) adds d[j] to z and leaves x and y
\* alone; so shear_x(mesh, zeros) followed by shear_z(mesh, zeros) returns
\* the mesh unchanged.
C7_ShearFrame ==
    /\ \A k \in {1, 3} :
        (After(IF k = 1 THEN "shear_x" ELSE "shear_z") /\ FullLength(LastCall, pre)) =>
            \A p \in Points(pre) : \A c \in 1..3 :
                mesh[p[1]][p[2]][c] =
                    IF c = k THEN Add(pre[p[1]][p[2]][c], LastCall.array[p[2]])
                    ELSE pre[p[1]][p[2]][c]
    /\ (/\ Len(calls) = 2 /\ err = "none"
        /\ calls[1].op = "shear_x" /\ Zeros(calls[1].array)
        /\ calls[2].op = "shear_z" /\ Zeros(calls[2].array)) => mesh = mesh0

\* a sheared station moved, its neighbours did not
C7_Witness ==
    /\ After("shear_z") /\ LastCall.array = <<I(0), I(1), I(0)>>
    /\ Len(calls) = 2 /\ calls[1].op = "shear_x" /\ calls[1].array = <<I(1), I(0), I(1)>>
    /\ mesh0 \in RectMeshes
    /\ mesh[1][2] = <<I(0), I(0), I(1)>>
    /\ mesh[1][1][1] = I(1) /\ mesh[1][1][3] = I(0)

\* taper then sweep were called on mesh0 with one symmetry mode, a nonzero
\* sweep angle and a taper ratio other than 1
TaperThenSweep ==
    /\ Len(calls) = 2 /\ err = "none"
    /\ calls[1].op = "taper" /\ calls[2].op = "sweep"
    /\ calls[1].symmetry = calls[2].symmetry
    /\ Ny(mesh0) >= 2
    /\ calls[2].scalar # I(0)
    /\ calls[1].scalar # I(1)

\* what the same two calls leave in the other order: sweep, then taper
SweepThenTaper ==
    taper(sweep(mesh0, calls[2].scalar[1], calls[2].symmetry),
          calls[1].scalar, calls[1].symmetry)

\* leading-edge y of station j relative to the root station sweep measures from
LeFromRoot(m, symmetry, j) ==
    Sub(LeRow(m)[j][2],
        LeRow(m)[IF symmetry THEN Ny(m) ELSE ((Ny(m) - 1) \div 2) + 1][2])

\* every station's leading and trailing edge share one y
RowsShareY(m) == \A j \in 1..Ny(m) : LeRow(m)[j][2] = TeRow(m)[j][2]

\* C10 as stated: with at least two stations, a nonzero sweep angle and a
\* taper ratio different from 1, taper then sweep gives final coordinates
\* different from sweep then taper.
C10_OrderAlwaysMatters == TaperThenSweep => mesh # SweepThenTaper

\* C10 amended: taper then sweep differs from sweep then taper exactly when
\* tapering moved some station's leading-edge y relative to the root station
\* (the distance sweep measures); when every station's leading and trailing
\* edge share one y, as in every mesh gen_rect_mesh builds, the two orders
\* give the same coordinates.
C10_OrderMattersIffTaperMovesLeadingEdge ==
    TaperThenSweep =>
        /\ (mesh # SweepThenTaper) <=>
              \E j \in 1..Ny(mesh0) :
                  LeFromRoot(pre, calls[2].symmetry, j) # LeFromRoot(mesh0, calls[2].symmetry, j)
        /\ RowsShareY(mesh0) => mesh = SweepThenTaper

\* a mesh with a skewed trailing edge, where the two orders do differ
C10_Witness ==
    /\ TaperThenSweep
    /\ calls[1].scalar = Q(1, 2) /\ calls[2].scalar = I(45)
    /\ ~RowsShareY(mesh0)
    /\ mesh # SweepThenTaper

----------------------------------------------------------------------------
(* Envelope, sweep and dihedral contracts *)

\* the last call was op, whether it returned or raised
Last(op) == calls # <<>> /\ LastCall.op = op

QcY(m) == [j \in 1..Ny(m) |-> QuarterChord(m)[j][2]]

IncreasingQ(a) == \A j \in 1..(Len(a) - 1) : Lt(a[j], a[j + 1])

\* index of the root station: last under symmetry, else the center
RootIndex(ny, symmetry) == IF symmetry THEN ny ELSE ((ny - 1) \div 2) + 1

\* the envelope the contract describes at station j: 1 at the root, ratio at
\* the tip(s), linear in quarter-chord y in between
LinearEnvelope(m, ratio, symmetry, j) ==
    LET y == QcY(m)
        n == Ny(m)
        r == RootIndex(n, symmetry)
    IN  IF j = r THEN I(1)
        ELSE IF j < r
        THEN Add(ratio, Mul(Sub(I(1), ratio), Div(Sub(y[j], y[1]), Sub(y[r], y[1]))))
        ELSE Add(ratio, Mul(Sub(I(1), ratio), Div(Sub(y[n], y[j]), Sub(y[n], y[r]))))

\* the meshes the envelope contract speaks of: increasing quarter-chord y,
\* a tip besides the root, and a center station when the wing is full
EnvelopeMesh(m, symmetry) ==
    /\ IncreasingQ(QcY(m))
    /\ Ny(m) >= 2
    /\ ~symmetry => Ny(m) % 2 = 1

\* C11: the scale envelope taper applies is 1.0 at the root station and
\* taper_ratio at the tip station(s), linear in quarter-chord y in between
\* (root last and tip first for a symmetric mesh; root at the center and
\* both ends tips for a full wing), for every mesh with increasing
\* quarter-chord y, wherever the mesh is placed along y.
C11_TaperEnvelopeAnywhere ==
    (After("taper") /\ EnvelopeMesh(pre, LastCall.symmetry)) =>
        \A p \in Points(pre) : \A k \in 1..3 :
            mesh[p[1]][p[2]][k] =
                ScaleAbout(pre[p[1]][p[2]][k], QuarterChord(pre)[p[2]][k],
                           LinearEnvelope(pre, LastCall.scalar, LastCall.symmetry, p[2]))

\* leading-edge y of the root station sweep and dihedral measure from
RootLeY(m, symmetry) == LeRow(m)[RootIndex(Ny(m), symmetry)][2]

\* the stations lie on the side of the root their index says: not right of
\* it before the root index, not left of it after
FansOutFromRoot(m, symmetry) ==
    \A j \in 1..Ny(m) :
        IF j < RootIndex(Ny(m), symmetry) \/ symmetry
        THEN Le(LeRow(m)[j][2], RootLeY(m, symmetry))
        ELSE Le(RootLeY(m, symmetry), LeRow(m)[j][2])

C13_DihedralMirrorsSweep ==
    After("dihedral") =>
        LET swept == sweep(pre, LastCall.scalar[1], LastCall.symmetry)
        IN  \A p \in Points(pre) :
                /\ Added(p[1], p[2], 3) = Sub(swept[p[1]][p[2]][1], pre[p[1]][p[2]][1])
                /\ mesh[p[1]][p[2]][1] = pre[p[1]][p[2]][1]
                /\ mesh[p[1]][p[2]][2] = pre[p[1]][p[2]][2]

\* a full wing raised on both sides of its center
C13_Witness ==
    /\ After("dihedral") /\ ~LastCall.symmetry /\ LastCall.scalar = I(45)
    /\ Ny(pre) = 3 /\ Nx(pre) = 3
    /\ Added(1, 1, 3) = I(1) /\ Added(1, 2, 3) = I(0) /\ Added(1, 3, 3) = I(2)
    /\ Added(3, 1, 3) = I(1)

----------------------------------------------------------------------------
(* Rectangular generator contracts *)

\* the coordinate k of every station of row i
RowCoord(m, i, k) == [j \in 1..Len(m[i]) |-> m[i][j][k]]

\* C14: for every num_x >= 1, every num_y >= 1 (odd or even) and every blend
\* value in [0, 1], gen_rect_mesh returns without error a mesh of exactly
\* num_x chordwise rows and num_y spanwise stations of 3 coordinates each.
C14_GenRectMeshAlwaysReturns ==
    Last("gen_rect_mesh") =>
        /\ err = "none"
        /\ Len(mesh) = ArgInt(LastCall, 1)
        /\ \A i \in 1..Len(mesh) :
            /\ Len(mesh[i]) = ArgInt(LastCall, 2)
            /\ \A j \in 1..Len(mesh[i]) : Len(mesh[i][j]) = 3

\* C15: for every chordwise spacing blend in [0, 1], zero or not, the mesh
\* gen_rect_mesh returns has its leading-edge row at x = 0 at every station,
\* its trailing-edge row at x = chord, and z = 0 everywhere (stated for the
\* meshes that have a trailing row besides the leading one).
C15_LeadingEdgeAtZero ==
    (After("gen_rect_mesh") /\ ArgInt(LastCall, 1) >= 2) =>
        /\ \A j \in 1..Ny(mesh) :
            /\ LeRow(mesh)[j][1] = I(0)
            /\ TeRow(mesh)[j][1] = LastCall.array[4]
        /\ \A p \in Points(mesh) : mesh[p[1]][p[2]][3] = I(0)

\* y[j] = -y[num_y - 1 - j], first station at -span/2, last at +span/2
SymmetricSpan(y, span) ==
    /\ \A j \in 1..Len(y) : y[j] = Neg(y[Len(y) + 1 - j])
    /\ y[1] = Div(Neg(span), I(2))
    /\ y[Len(y)] = Div(span, I(2))

----------------------------------------------------------------------------
(* Failure semantics and the remaining operator contracts *)

\* C17: an operator that takes a per-station parameter array (scale_x,
\* shear_x, shear_z, rotate) fails at the call boundary when the array's
\* length differs from the mesh's spanwise count ny: it neither applies the
\* parameters silently (truncated or broadcast) nor leaves the mesh partly
\* modified.
C17_LengthMismatchFailsFast ==
    (/\ calls # <<>>
     /\ LastCall.op \in {"scale_x", "shear_x", "shear_z", "rotate"}
     /\ Len(LastCall.array) # Ny(pre)) =>
        /\ err # "none"
        /\ mesh = pre

\* the span stretch aims the quarter-chord extent at
TargetExtent(c) == IF c.symmetry THEN Div(c.scalar, I(2)) ELSE c.scalar

\* C18: stretch multiplies the y of every point, on every chordwise row, by
\* the one common factor new_extent / old_extent whenever the quarter-chord
\* extent is nonzero, so ratios between the y of any two points are kept,
\* and leaves x and z unchanged.
C18_StretchScalesEveryPoint ==
    (After("stretch") /\ QcExtent(pre) # I(0)) =>
        \A p \in Points(pre) :
            /\ mesh[p[1]][p[2]][2] =
                  Mul(pre[p[1]][p[2]][2], Div(TargetExtent(LastCall), QcExtent(pre)))
            /\ mesh[p[1]][p[2]][1] = pre[p[1]][p[2]][1]
            /\ mesh[p[1]][p[2]][3] = pre[p[1]][p[2]][3]

\* C19: gen_crm_mesh(num_x, num_y, ...) returns a mesh of exactly num_y
\* spanwise stations, for odd and for even num_y, obtained by mirroring the
\* interpolated half span, and of exactly num_x chordwise rows: the two
\* interpolated rows when num_x = 2, the output of add_chordwise_panels when
\* num_x > 2.
C19_CrmMeshHasRequestedShape ==
    (After("gen_crm_mesh") /\ ArgInt(LastCall, 1) >= 2) =>
        LET num_x == ArgInt(LastCall, 1)
            num_y == ArgInt(LastCall, 2)
        IN  /\ Nx(mesh) = num_x
            /\ \A i \in 1..Nx(mesh) : Len(mesh[i]) = num_y
            /\ \A i \in 1..Nx(mesh) : \A j \in 1..Len(mesh[i]) :
                /\ mesh[i][j][1] = mesh[i][Len(mesh[i]) + 1 - j][1]
                /\ mesh[i][j][2] = Neg(mesh[i][Len(mesh[i]) + 1 - j][2])
                /\ mesh[i][j][3] = mesh[i][Len(mesh[i]) + 1 - j][3]
            /\ num_x > 2 =>
                  mesh = add_chordwise_panels(<<LeRow(mesh), TeRow(mesh)>>, num_x,
                                              LastCall.array[4])

\* the station the local slope of station j is taken towards
TowardsRoot(m, symmetry, j) == IF j < RotateRoot(Ny(m), symmetry) THEN j + 1 ELSE j - 1

\* the rolled stations whose quarter chord shares y, resp. y and z, with
\* the adjacent station towards the root
SameYStations(m, symmetry) ==
    {j \in 1..Ny(m) \ {RotateRoot(Ny(m), symmetry)} :
        QuarterChord(m)[j][2] = QuarterChord(m)[TowardsRoot(m, symmetry, j)][2]}

CoincidentStations(m, symmetry) ==
    {j \in SameYStations(m, symmetry) :
        QuarterChord(m)[j][3] = QuarterChord(m)[TowardsRoot(m, symmetry, j)][3]}

\* a rotate call with local roll and a twist array numpy accepts
RolledRotate ==
    /\ Last("rotate") /\ LastCall.flag
    /\ Broadcastable(LastCall.array, Ny(pre))

\* C20 as stated: stretch on a mesh of zero quarter-chord extent, and rotate
\* with rotate_x = True on a mesh where two adjacent quarter-chord stations
\* share the same y, both return normally and leave non-finite coordinates.
C20_DegenerateGivesNonFinite ==
    /\ Last("stretch") => err = "none"
    /\ (After("stretch") /\ QcExtent(pre) = I(0)) => ~FiniteMesh(mesh)
    /\ (RolledRotate /\ SameYStations(pre, LastCall.symmetry) # {}) =>
          (err = "none" /\ ~FiniteMesh(mesh))

\* C20 amended: neither call raises; stretch on a mesh of zero
\* quarter-chord extent leaves non-finite coordinates; rotate with
\* rotate_x = True leaves non-finite coordinates when two adjacent
\* quarter-chord stations share y and z (slope 0/0), and only finite ones
\* when every pair that shares y differs in z (the slope is infinite and
\* the station is rolled by 90 degrees).
C20_DegenerateRollNeedsCoincidence ==
    /\ Last("stretch") => err = "none"
    /\ (After("stretch") /\ QcExtent(pre) = I(0)) => ~FiniteMesh(mesh)
    /\ (RolledRotate /\ SameYStations(pre, LastCall.symmetry) # {}) =>
          /\ err = "none"
          /\ CoincidentStations(pre, LastCall.symmetry) # {} => ~FiniteMesh(mesh)
          /\ CoincidentStations(pre, LastCall.symmetry) = {} => FiniteMesh(mesh)

\* a winglet: the tip station stands above its neighbour and is rolled
\* upright, every coordinate staying finite
C20_Witness ==
    /\ RolledRotate /\ LastCall.symmetry /\ Ny(pre) = 3 /\ Nx(pre) = 3
    /\ 1 \in SameYStations(pre, TRUE)
    /\ CoincidentStations(pre, TRUE) = {}
    /\ LastCall.array = <<90, 90, 90>>
    /\ FiniteMesh(mesh) /\ mesh # pre

----------------------------------------------------------------------------
(* Refinement weights, and half-wing against full-wing mode *)

\* C21: for every num_x >= 3, odd or even, and every chordwise blend in
\* [0, 1], the blend weights add_chordwise_panels uses for the interior rows
\* 1..num_x-2 are strictly between 0 and 1 and strictly increasing, so when
\* the leading and trailing rows differ no interior row coincides with the
\* leading row, the trailing row, or another interior row.
C21_InteriorRowsDistinct ==
    (/\ After("add_chordwise_panels") /\ Nx(pre) = 2
     /\ ArgInt(LastCall, 1) >= 3
     /\ \A j \in 1..Ny(pre) : pre[1][j][1] # pre[2][j][1]) =>
        LET num_x == ArgInt(LastCall, 1)
        IN  \A i \in 2..(num_x - 1) :
                /\ Lt(I(0), WeightAt(i, 1)) /\ Lt(WeightAt(i, 1), I(1))
                /\ i > 2 => Lt(WeightAt(i - 1, 1), WeightAt(i, 1))
                /\ mesh[i] # mesh[1]
                /\ mesh[i] # mesh[num_x]
                /\ \A k \in 2..(num_x - 1) : k # i => mesh[k] # mesh[i]

\* leading-edge y mirror-symmetric about the center station of an odd count
MirrorSymmetricLe(m) ==
    /\ Ny(m) % 2 = 1
    /\ \A j \in 1..Ny(m) :
        Sub(LeRow(m)[j][2], LeRow(m)[((Ny(m) - 1) \div 2) + 1][2]) =
            Neg(Sub(LeRow(m)[Ny(m) + 1 - j][2], LeRow(m)[((Ny(m) - 1) \div 2) + 1][2]))

\* the half mesh made of the stations 0..(ny-1)/2 alone
HalfMesh(m) == [i \in 1..Nx(m) |-> SubSeq(m[i], 1, ((Ny(m) - 1) \div 2) + 1)]

\* what the half-wing call of the last operator leaves on the half mesh
HalfWingCall(k) ==
    IF k = 1 THEN sweep(HalfMesh(pre), LastCall.scalar[1], TRUE)
    ELSE dihedral(HalfMesh(pre), LastCall.scalar[1], TRUE)

\* C22: for a full-wing mesh with odd ny whose leading-edge y is
\* mirror-symmetric about the center station, sweep (on x) and dihedral (on
\* z) with symmetry = False add mirror-symmetric offsets (the offset at
\* station j equals the one at station ny-1-j), and the offsets on stations
\* 0..(ny-1)/2 equal those the same operator with symmetry = True adds to
\* the half mesh made of those stations alone.
C22_HalfAndFullWingAgree ==
    \A k \in {1, 3} :
        (/\ After(IF k = 1 THEN "sweep" ELSE "dihedral")
         /\ ~LastCall.symmetry
         /\ MirrorSymmetricLe(pre)) =>
            \A p \in Points(pre) :
                /\ Added(p[1], p[2], k) = Added(p[1], Ny(pre) + 1 - p[2], k)
                /\ p[2] <= ((Ny(pre) - 1) \div 2) + 1 =>
                      Added(p[1], p[2], k) =
                          Sub(HalfWingCall(k)[p[1]][p[2]][k], pre[p[1]][p[2]][k])

\* a full wing with tips two units either side of its center, swept back
C22_Witness ==
    /\ After("sweep") /\ ~LastCall.symmetry /\ LastCall.scalar = I(45)
    /\ Nx(pre) = 3 /\ Ny(pre) = 3
    /\ MirrorSymmetricLe(pre)
    /\ Added(3, 1, 1) = I(2) /\ Added(3, 3, 1) = I(2) /\ Added(3, 2, 1) = I(0)
    /\ Sub(HalfWingCall(1)[3][1][1], pre[3][1][1]) = I(2)

====
